---- MODULE Spec2Model ----
(***************************************************************************)
(* Verification model of rust-sugiyama:                                    *)
(*   - the network-simplex spanning tree container                         *)
(*     (src/graphs/p1_layering/tree.rs: Tree, Vertex, Neighbors,           *)
(*     ConnectedEdges), and                                                *)
(*   - the configuration builder (src/configure.rs: CoordinatesBuilder).   *)
(***************************************************************************)
EXTENDS Integers, Sequences, FiniteSets, TLC

\* ------------------------------------------------------------------------
\* Bounds of the model
\* ------------------------------------------------------------------------
\* node ids are 0..MaxNode
MaxNode == 2
\* add_edge is not offered once the edge set holds MaxEdges edges
MaxEdges == 2
\* longest edge list handed to from_edges
MaxFromEdges == 2

NodeIds == 0..MaxNode

VARIABLES
    tree,       \* the Tree under study: [vertices, edges]
    tree2,      \* a second Tree, built by the same calls (determinism check)
    panicked,   \* TRUE once an assert!/unwrap() has panicked
    last,       \* the last call: [op, a, b, ret]
    obs,        \* items yielded by the last iteration over tree
    obs2        \* items yielded by the last iteration over tree2

treeVars == <<tree, tree2, panicked, last, obs, obs2>>

VARIABLES
    config,     \* CoordinatesBuilder.config
    env,        \* the process environment: variable name -> value or Unset
    errors,     \* what error!(target: "initialization", ..) has logged so far
    pc,         \* "builder" while the builder is alive, "built" after build
    handed,     \* the config handed to algorithm::start
    calls,      \* number of builder methods called so far
    cfgLast     \* the last builder method called

cfgVars == <<config, env, errors, pc, handed, calls, cfgLast>>

\* ------------------------------------------------------------------------
\* Vertex
\* ------------------------------------------------------------------------
Vertex_new(id) == [id |-> id, incoming |-> {}, outgoing |-> {}]

\* PartialEq (and Hash) of Vertex look at the id only
Vertex_eq(a, b) == a.id = b.id

Vertex_neighbor_count(v) == Cardinality(v.incoming) + Cardinality(v.outgoing)

Vertex_is_leave_le2(v) == Vertex_neighbor_count(v) <= 2

Vertex_is_leave(v) == Vertex_neighbor_count(v) < 2

\* ------------------------------------------------------------------------
\* HashSet<Vertex> under Vertex's Eq/Hash: a set of vertex records in which
\* membership, lookup and removal go by Vertex_eq.
\* ------------------------------------------------------------------------
contains(vs, v) == \E w \in vs : Vertex_eq(w, v)

get(vs, v) == CHOOSE w \in vs : Vertex_eq(w, v)

take(vs, v) == vs \ {get(vs, v)}

\* mutant: HashSet::replace instead of HashSet::insert
insert_replace(vs, v) == {w \in vs : ~Vertex_eq(w, v)} \cup {v}

\* HashSet::insert keeps the stored element when an equal one is present
insert(vs, v) == IF contains(vs, v) THEN vs ELSE vs \cup {v}

\* Iteration over a std HashSet follows the hash order, which depends on the
\* set's RandomState keys and table history: any enumeration of the set.
RECURSIVE Iter(_)
Iter(S) ==
    IF S = {} THEN {<<>>}
    ELSE UNION {{<<x>> \o s : s \in Iter(S \ {x})} : x \in S}

\* ------------------------------------------------------------------------
\* Tree
\* ------------------------------------------------------------------------
Tree_new == [vertices |-> {}, edges |-> {}]

add_vertex(t, node) == [t EXCEPT !.vertices = insert(t.vertices, Vertex_new(node))]

contains_vertex(t, vertex) == contains(t.vertices, Vertex_new(vertex))

contains_edge(t, tail, head) == <<tail, head>> \in t.edges

\* The result of add_edge: the tree afterwards and whether the call panicked.
add_edge_body(t, tail, head) ==
    LET v_tail == get(t.vertices, Vertex_new(tail))
        vs1    == insert(take(t.vertices, Vertex_new(tail)),
                         [v_tail EXCEPT !.outgoing = @ \cup {head}])
        v_head == get(vs1, Vertex_new(head))
        vs2    == insert(take(vs1, Vertex_new(head)),
                         [v_head EXCEPT !.incoming = @ \cup {tail}])
    IN  [vertices |-> vs2, edges |-> t.edges \cup {<<tail, head>>}]

\* mutant: the head vertex is not updated
add_edge_no_head(t, tail, head) ==
    IF ~contains(t.vertices, Vertex_new(tail)) \/ ~contains(t.vertices, Vertex_new(head))
    THEN [tree |-> t, panic |-> TRUE]
    ELSE LET v_tail == get(t.vertices, Vertex_new(tail))
             vs1    == insert(take(t.vertices, Vertex_new(tail)),
                              [v_tail EXCEPT !.outgoing = @ \cup {head}])
         IN  [tree  |-> [vertices |-> vs1, edges |-> t.edges \cup {<<tail, head>>}],
              panic |-> FALSE]

\* mutant: the head is only looked up after the tail has been rewritten
add_edge_late_check(t, tail, head) ==
    IF ~contains(t.vertices, Vertex_new(tail))
    THEN [tree |-> t, panic |-> TRUE]
    ELSE LET v_tail == get(t.vertices, Vertex_new(tail))
             vs1    == insert(take(t.vertices, Vertex_new(tail)),
                              [v_tail EXCEPT !.outgoing = @ \cup {head}])
         IN  IF ~contains(vs1, Vertex_new(head))
             THEN [tree |-> [t EXCEPT !.vertices = vs1], panic |-> TRUE]
             ELSE [tree |-> add_edge_body(t, tail, head), panic |-> FALSE]

add_edge(t, tail, head) ==
    IF ~contains(t.vertices, Vertex_new(tail))
    THEN [tree |-> t, panic |-> TRUE]
    ELSE IF ~contains(t.vertices, Vertex_new(head))
    THEN [tree |-> t, panic |-> TRUE]
    ELSE [tree |-> add_edge_body(t, tail, head), panic |-> FALSE]

\* mutant: true when at least one endpoint is a member
is_incident_edge_or(t, tail, head) == contains_vertex(t, tail) \/ contains_vertex(t, head)

\* mutant: true when the tail is the member
is_incident_edge_tail(t, tail, head) == contains_vertex(t, tail) /\ ~contains_vertex(t, head)

is_incident_edge(t, tail, head) ==
    (contains_vertex(t, tail) /\ ~contains_vertex(t, head))
    \/ (~contains_vertex(t, tail) /\ contains_vertex(t, head))

\* is_leave unwraps the lookup: it panics for a vertex that is not stored
is_leave(t, vertex) ==
    IF contains(t.vertices, Vertex_new(vertex))
    THEN [ret |-> Vertex_is_leave(get(t.vertices, Vertex_new(vertex))), panic |-> FALSE]
    ELSE [ret |-> FALSE, panic |-> TRUE]

edge_count(t) == Cardinality(t.edges)

vertice_count(t) == Cardinality(t.vertices)

Vertex_id(v) == v.id

\* vertices(): the stored vertices in iteration order `ord`
vertices_iter(t, ord) == ord

\* leaves(): vertices.iter().filter(is_leave).map(id), for iteration order `ord`
leaves(t, ord) ==
    LET kept == SelectSeq(ord, Vertex_is_leave)
    IN  [i \in 1..Len(kept) |-> Vertex_id(kept[i])]

\* The enumerations incoming(vertex) can yield (none for an unknown vertex)
incoming(t, vertex) ==
    IF contains(t.vertices, Vertex_new(vertex))
    THEN Iter(get(t.vertices, Vertex_new(vertex)).incoming)
    ELSE {<<>>}

outgoing(t, vertex) ==
    IF contains(t.vertices, Vertex_new(vertex))
    THEN Iter(get(t.vertices, Vertex_new(vertex)).outgoing)
    ELSE {<<>>}

\* connected_edges(vertex): first (inc, vertex) for every incoming neighbour,
\* then (vertex, out) for every outgoing one
connected_edges(t, vertex) ==
    {[i \in 1..(Len(iin) + Len(iout)) |->
          IF i <= Len(iin) THEN <<iin[i], vertex>> ELSE <<vertex, iout[i - Len(iin)]>>] :
        iin \in incoming(t, vertex), iout \in outgoing(t, vertex)}

RECURSIVE from_edges_loop(_, _)
from_edges_loop(t, es) ==
    IF es = <<>> THEN t
    ELSE LET tail == es[1][1]
             head == es[1][2]
             t2   == add_vertex(add_vertex(t, tail), head)
         IN  from_edges_loop(add_edge(t2, tail, head).tree, Tail(es))

from_edges(es) == from_edges_loop(Tree_new, es)

EdgeLists == UNION {[1..n -> NodeIds \X NodeIds] : n \in 0..MaxFromEdges}

Call(op, a, b, ret) == [op |-> op, a |-> a, b |-> b, ret |-> ret]

\* ------------------------------------------------------------------------
\* Configuration builder (configure.rs)
\* ------------------------------------------------------------------------
\* Strings are sequences of one-character strings.
ENV_MINIMUM_LENGTH == "RUST_GRAPH_MIN_LEN"
ENV_VERTEX_SPACING == "RUST_GRAPH_V_SPACING"
ENV_DUMMY_VERTICES == "RUST_GRAPH_DUMMIES"
ENV_LAYERING_TYPE == "RUST_GRAPH_L_TYPE"
ENV_CROSSING_MINIMIZATION == "RUST_GRAPH_CROSS_MIN"
ENV_TRANSPOSE == "RUST_GRAPH_TRANSPOSE"
ENV_DUMMY_SIZE == "RUST_GRAPH_DUMMY_SIZE"

EnvNames ==
    {ENV_MINIMUM_LENGTH, ENV_VERTEX_SPACING, ENV_DUMMY_VERTICES, ENV_LAYERING_TYPE,
     ENV_CROSSING_MINIMIZATION, ENV_TRANSPOSE, ENV_DUMMY_SIZE}

\* the value of a variable: Unset, or Set(string)
Unset == <<>>

Set(x) == <<x>>

Ok(v) == [ok |-> TRUE, val |-> v, err |-> ""]

Err(e) == [ok |-> FALSE, val |-> 0, err |-> e]

DigitChars == <<"0", "1", "2", "3", "4", "5", "6", "7", "8", "9">>

IsDigit(c) == \E i \in 1..Len(DigitChars) : DigitChars[i] = c

DigitVal(c) == (CHOOSE i \in 1..Len(DigitChars) : DigitChars[i] = c) - 1

AllDigits(s) == \A i \in 1..Len(s) : IsDigit(s[i])

RECURSIVE StripZeros(_)
StripZeros(d) == IF d # <<>> /\ d[1] = "0" THEN StripZeros(Tail(d)) ELSE d

\* a < b for digit strings of the same length
RECURSIVE DigitsLess(_, _)
DigitsLess(a, b) ==
    IF a = <<>> THEN FALSE
    ELSE IF a[1] # b[1] THEN DigitVal(a[1]) < DigitVal(b[1])
    ELSE DigitsLess(Tail(a), Tail(b))

\* the decimal number d is greater than the decimal number max
Exceeds(d, max) ==
    LET n == StripZeros(d)
    IN  \/ Len(n) > Len(max)
        \/ Len(n) = Len(max) /\ DigitsLess(max, n)

RECURSIVE DecimalValue(_)
DecimalValue(d) ==
    IF d = <<>> THEN 0
    ELSE DecimalValue(SubSeq(d, 1, Len(d) - 1)) * 10 + DigitVal(d[Len(d)])

U32_MAX == <<"4", "2", "9", "4", "9", "6", "7", "2", "9", "5">>

USIZE_MAX ==
    <<"1", "8", "4", "4", "6", "7", "4", "4", "0", "7",
      "3", "7", "0", "9", "5", "5", "1", "6", "1", "5">>

\* An unsigned integer parsed from a decimal string: an optional leading "+",
\* then digits read left to right; the first character that is no digit, or
\* that takes the value past `max`, ends the parse with an error.
parse_unsigned(x, max) ==
    IF x = <<>> THEN Err("cannot parse integer from empty string")
    ELSE LET d == IF x[1] = "+" THEN Tail(x) ELSE x
             bad == {i \in 1..Len(d) : ~IsDigit(d[i]) \/ Exceeds(SubSeq(d, 1, i), max)}
             first == CHOOSE i \in bad : \A j \in bad : i <= j
         IN  IF d = <<>> THEN Err("invalid digit found in string")
             ELSE IF bad = {} THEN Ok(DecimalValue(d))
             ELSE IF ~IsDigit(d[first]) THEN Err("invalid digit found in string")
             ELSE Err("number too large to fit in target type")

\* |x| u32::from_str_radix(&x, 10)
parse_u32(x) == parse_unsigned(x, U32_MAX)

\* |x| x.parse::<usize>()
parse_usize(x) == parse_unsigned(x, USIZE_MAX)

\* the closure parse_bool of from_env
parse_bool(x) ==
    IF x = <<"y">> THEN Ok(TRUE)
    ELSE IF x = <<"n">> THEN Ok(FALSE)
    ELSE Err("Invalid argument for dummy vertex env")

\* An f64 is held as a decimal: mant / 10^scale, without trailing zeros.
RECURSIVE F64(_, _)
F64(mant, scale) ==
    IF scale > 0 /\ mant % 10 = 0 THEN F64(mant \div 10, scale - 1)
    ELSE [mant |-> mant, scale |-> scale]

\* |x| x.parse::<f64>(), for the strings "digits" and "digits.digits" with an
\* optional sign; every other string of the modelled alphabet is no float.
parse_f64(x) ==
    LET signed == x # <<>> /\ x[1] \in {"+", "-"}
        d      == IF signed THEN Tail(x) ELSE x
        dots   == {i \in 1..Len(d) : d[i] = "."}
        dot    == IF dots = {} THEN Len(d) + 1 ELSE CHOOSE i \in dots : TRUE
        ip     == SubSeq(d, 1, dot - 1)
        fp     == SubSeq(d, dot + 1, Len(d))
        sgn    == IF signed /\ x[1] = "-" THEN -1 ELSE 1
    IN  IF Cardinality(dots) > 1 \/ ~AllDigits(ip) \/ ~AllDigits(fp) \/ ip \o fp = <<>>
        THEN Err("invalid float literal")
        ELSE Ok(F64(sgn * DecimalValue(ip \o fp), Len(fp)))

\* TryFrom<String> for RankingType and for CrossingMinimization
RankingType_try_from(x) ==
    IF x = <<"m", "i", "n", "h", "e", "i", "g", "h", "t">> THEN Ok("MinHeight")
    ELSE IF x = <<"u", "p">> THEN Ok("Up")
    ELSE IF x = <<"d", "o", "w", "n">> THEN Ok("Down")
    ELSE IF x = <<"p", "r", "o", "m", "o", "t", "e">> THEN Ok("MinHeightPromote")
    ELSE Err("invalid layering type")

CrossingMinimization_try_from(x) ==
    IF x = <<"b", "a", "r", "y", "c", "e", "n", "t", "e", "r">> THEN Ok("Barycenter")
    ELSE IF x = <<"m", "e", "d", "i", "a", "n">> THEN Ok("Median")
    ELSE Err("invalid crossing minimization")

RankingTypes == {"MinHeight", "Up", "Down", "MinHeightPromote"}

CrossingMinimizations == {"Barycenter", "Median"}

Config_default ==
    [minimum_length |-> 1,
     vertex_spacing |-> 10,
     dummy_vertices |-> TRUE,
     dummy_size     |-> F64(1, 0),
     layering_type  |-> "MinHeight",
     c_minimization |-> "Barycenter",
     transpose      |-> TRUE]

NoConfig == [none |-> TRUE]

\* the builder state the methods act on
Builder(c, e) == [config |-> c, errors |-> e]

\* the string of a variable that is set
env_str(e, name) == IF e[name] = Unset THEN <<>> ELSE e[name][1]

\* env::var(name).map(cb): not set for Err(VarError), else cb's result
env_var_map(e, name, parsed) ==
    IF e[name] = Unset THEN [set |-> FALSE, res |-> Err("")]
    ELSE [set |-> TRUE, res |-> parsed]

\* mutant: a value that fails to parse resets the field to its default
read_env_reset(b, field, name, r) ==
    IF r.set /\ r.res.ok THEN [b EXCEPT !.config[field] = r.res.val]
    ELSE IF r.set
    THEN [b EXCEPT !.config[field] = Config_default[field],
                   !.errors = Append(@, [target |-> "initialization", var |-> name,
                                         msg |-> r.res.err])]
    ELSE b

\* read_env!($field, $cb, $env), with r = env::var($env).map($cb)
read_env(b, field, name, r) ==
    IF r.set /\ r.res.ok THEN [b EXCEPT !.config[field] = r.res.val]
    ELSE IF r.set
    THEN [b EXCEPT !.errors = Append(@, [target |-> "initialization", var |-> name,
                                         msg |-> r.res.err])]
    ELSE b

from_env(b, e) ==
    LET b1 == read_env(b, "minimum_length", ENV_MINIMUM_LENGTH,
                       env_var_map(e, ENV_MINIMUM_LENGTH, parse_u32(env_str(e, ENV_MINIMUM_LENGTH))))
        b2 == read_env(b1, "c_minimization", ENV_CROSSING_MINIMIZATION,
                       env_var_map(e, ENV_CROSSING_MINIMIZATION,
                                   CrossingMinimization_try_from(env_str(e, ENV_CROSSING_MINIMIZATION))))
        b3 == read_env(b2, "layering_type", ENV_LAYERING_TYPE,
                       env_var_map(e, ENV_LAYERING_TYPE,
                                   RankingType_try_from(env_str(e, ENV_LAYERING_TYPE))))
        b4 == read_env(b3, "vertex_spacing", ENV_VERTEX_SPACING,
                       env_var_map(e, ENV_VERTEX_SPACING, parse_usize(env_str(e, ENV_VERTEX_SPACING))))
        b5 == read_env(b4, "dummy_vertices", ENV_DUMMY_VERTICES,
                       env_var_map(e, ENV_DUMMY_VERTICES, parse_bool(env_str(e, ENV_DUMMY_VERTICES))))
        b6 == read_env(b5, "dummy_size", ENV_DUMMY_SIZE,
                       env_var_map(e, ENV_DUMMY_SIZE, parse_f64(env_str(e, ENV_DUMMY_SIZE))))
        b7 == read_env(b6, "transpose", ENV_TRANSPOSE,
                       env_var_map(e, ENV_TRANSPOSE, parse_bool(env_str(e, ENV_TRANSPOSE))))
    IN  b7

\* ------------------------------------------------------------------------
\* Inputs of the builder
\* ------------------------------------------------------------------------
\* builder methods called before build
MaxCalls == 2
\* environment variables that are set
MaxEnvSet == 2

\* the values an environment variable is given
EnvValues(name) ==
    IF name = ENV_MINIMUM_LENGTH
    THEN {<<"0">>, <<"+", "2">>, <<"-", "1">>,
          <<"4", "2", "9", "4", "9", "6", "7", "2", "9", "6">>}
    ELSE IF name = ENV_VERTEX_SPACING THEN {<<"0", "5">>, <<>>}
    ELSE IF name = ENV_DUMMY_VERTICES THEN {<<"n">>, <<"y", "e", "s">>}
    ELSE IF name = ENV_LAYERING_TYPE THEN {<<"u", "p">>, <<"z", "z">>}
    ELSE IF name = ENV_CROSSING_MINIMIZATION
    THEN {<<"m", "e", "d", "i", "a", "n">>, <<"1">>}
    ELSE IF name = ENV_TRANSPOSE THEN {<<"n">>, <<"N">>}
    ELSE {<<"0", ".", "5">>, <<"x">>}

\* the environments in which the variables of S, and no others, are set
EnvsSetting(S) ==
    {[n \in EnvNames |-> IF n \in S THEN Set(f[n]) ELSE Unset] :
        f \in {g \in [S -> UNION {EnvValues(n) : n \in S}] :
                  \A n \in S : g[n] \in EnvValues(n)}}

Envs ==
    UNION {EnvsSetting(S) : S \in {T \in SUBSET EnvNames : Cardinality(T) <= MaxEnvSet}}

U32Inputs == {0, 2}

UsizeInputs == {0, 5}

F64Inputs == {F64(5, 1)}

\* the builder and its environment before any call
InitCfgIdle ==
    /\ config = Config_default
    /\ env = [n \in EnvNames |-> Unset]
    /\ errors = <<>>
    /\ pc = "builder"
    /\ handed = NoConfig
    /\ calls = 0
    /\ cfgLast = "new"

InitTreeIdle ==
    /\ tree = Tree_new
    /\ tree2 = Tree_new
    /\ panicked = FALSE
    /\ last = Call("new", 0, 0, FALSE)
    /\ obs = <<>>
    /\ obs2 = <<>>

\* CoordinatesBuilder::new, in some environment
InitCfg ==
    /\ config = Config_default
    /\ env \in Envs
    /\ errors = <<>>
    /\ pc = "builder"
    /\ handed = NoConfig
    /\ calls = 0
    /\ cfgLast = "new"
    /\ InitTreeIdle

\* a setter: self.config.<field> = v
Setter(name, field, v) ==
    /\ pc = "builder"
    /\ calls < MaxCalls
    /\ config' = [config EXCEPT ![field] = v]
    /\ calls' = calls + 1
    /\ cfgLast' = name
    /\ UNCHANGED <<env, errors, pc, handed>>
    /\ UNCHANGED treeVars

MinimumLength(v) == Setter("minimum_length", "minimum_length", v)

VertexSpacing(v) == Setter("vertex_spacing", "vertex_spacing", v)

DummyVertices(v) == Setter("dummy_vertices", "dummy_vertices", v)

LayeringType(v) == Setter("layering_type", "layering_type", v)

CrossingMinimizationSetter(v) == Setter("crossing_minimization", "c_minimization", v)

Transpose(v) == Setter("transpose", "transpose", v)

DummySize(v) == Setter("dummy_size", "dummy_size", v)

FromEnv ==
    /\ pc = "builder"
    /\ calls < MaxCalls
    /\ LET b == from_env(Builder(config, errors), env)
       IN  /\ config' = b.config
           /\ errors' = b.errors
    /\ calls' = calls + 1
    /\ cfgLast' = "from_env"
    /\ UNCHANGED <<env, pc, handed>>
    /\ UNCHANGED treeVars

\* build: the config goes to algorithm::start as it is
Build ==
    /\ pc = "builder"
    /\ handed' = config
    /\ pc' = "built"
    /\ cfgLast' = "build"
    /\ UNCHANGED <<config, env, errors, calls>>
    /\ UNCHANGED treeVars

NextCfg ==
    \/ \E v \in U32Inputs : MinimumLength(v)
    \/ \E v \in UsizeInputs : VertexSpacing(v)
    \/ \E v \in BOOLEAN : DummyVertices(v)
    \/ \E v \in RankingTypes : LayeringType(v)
    \/ \E v \in CrossingMinimizations : CrossingMinimizationSetter(v)
    \/ \E v \in BOOLEAN : Transpose(v)
    \/ \E v \in F64Inputs : DummySize(v)
    \/ FromEnv
    \/ Build

\* ------------------------------------------------------------------------
\* Specification of one Tree driven by arbitrary calls
\* ------------------------------------------------------------------------
InitTree == InitTreeIdle /\ InitCfgIdle

FromEdges(es) ==
    /\ ~panicked
    /\ last.op = "new"
    /\ tree' = from_edges(es)
    /\ last' = Call("from_edges", 0, 0, FALSE)
    /\ UNCHANGED <<tree2, panicked, obs, obs2>>
    /\ UNCHANGED cfgVars

AddVertex(n) ==
    /\ ~panicked
    /\ tree' = add_vertex(tree, n)
    /\ last' = Call("add_vertex", n, n, FALSE)
    /\ obs' = <<>>
    /\ UNCHANGED <<tree2, panicked, obs2>>
    /\ UNCHANGED cfgVars

AddEdge(tail, head) ==
    /\ ~panicked
    /\ edge_count(tree) < MaxEdges
    /\ LET r == add_edge(tree, tail, head)
       IN  /\ tree' = r.tree
           /\ panicked' = r.panic
    /\ last' = Call("add_edge", tail, head, FALSE)
    /\ obs' = <<>>
    /\ UNCHANGED <<tree2, obs2>>
    /\ UNCHANGED cfgVars

IsIncidentEdge(tail, head) ==
    /\ ~panicked
    /\ last' = Call("is_incident_edge", tail, head, is_incident_edge(tree, tail, head))
    /\ obs' = <<>>
    /\ UNCHANGED <<tree, tree2, panicked, obs2>>
    /\ UNCHANGED cfgVars

IsLeave(n) ==
    /\ ~panicked
    /\ LET r == is_leave(tree, n)
       IN  /\ last' = Call("is_leave", n, n, r.ret)
           /\ panicked' = r.panic
    /\ obs' = <<>>
    /\ UNCHANGED <<tree, tree2, obs2>>
    /\ UNCHANGED cfgVars

Leaves ==
    /\ ~panicked
    /\ \E ord \in Iter(tree.vertices) : obs' = leaves(tree, ord)
    /\ last' = Call("leaves", 0, 0, FALSE)
    /\ UNCHANGED <<tree, tree2, panicked, obs2>>
    /\ UNCHANGED cfgVars

NextTree ==
    \/ \E es \in EdgeLists : FromEdges(es)
    \/ \E n \in NodeIds : AddVertex(n)
    \/ \E t, h \in NodeIds : AddEdge(t, h)
    \/ \E t, h \in NodeIds : IsIncidentEdge(t, h)
    \/ \E n \in NodeIds : IsLeave(n)
    \/ Leaves

\* ------------------------------------------------------------------------
\* Specification of the tight tree grown along incident edges
\* ------------------------------------------------------------------------
\* the graph the tree grows in has the vertices 0..MaxGrowNode
MaxGrowNode == 3

GrowIds == 0..MaxGrowNode

InitGrow ==
    /\ \E r \in GrowIds :
          /\ tree = add_vertex(Tree_new, r)
          /\ last = Call("add_vertex", r, r, FALSE)
    /\ tree2 = Tree_new
    /\ panicked = FALSE
    /\ obs = <<>>
    /\ obs2 = <<>>
    /\ InitCfgIdle

\* One growth step: an incident edge is taken, its missing endpoint is added
\* as a vertex and the edge is added to the tree.
Grow(tail, head) ==
    /\ ~panicked
    /\ is_incident_edge(tree, tail, head)
    /\ LET missing == IF contains_vertex(tree, tail) THEN head ELSE tail
           r       == add_edge(add_vertex(tree, missing), tail, head)
       IN  /\ tree' = r.tree
           /\ panicked' = r.panic
    /\ last' = Call("grow", tail, head, FALSE)
    /\ UNCHANGED <<tree2, obs, obs2>>
    /\ UNCHANGED cfgVars

NextGrow == \E t, h \in GrowIds : Grow(t, h)

\* ------------------------------------------------------------------------
\* Specification of two Trees built by the same calls and iterated
\* ------------------------------------------------------------------------
BothAddVertex(n) ==
    /\ ~panicked
    /\ tree' = add_vertex(tree, n)
    /\ tree2' = add_vertex(tree2, n)
    /\ last' = Call("add_vertex", n, n, FALSE)
    /\ obs' = <<>>
    /\ obs2' = <<>>
    /\ UNCHANGED panicked
    /\ UNCHANGED cfgVars

BothAddEdge(tail, head) ==
    /\ ~panicked
    /\ edge_count(tree) < MaxEdges
    /\ LET r1 == add_edge(tree, tail, head)
           r2 == add_edge(tree2, tail, head)
       IN  /\ tree' = r1.tree
           /\ tree2' = r2.tree
           /\ panicked' = (r1.panic \/ r2.panic)
    /\ last' = Call("add_edge", tail, head, FALSE)
    /\ obs' = <<>>
    /\ obs2' = <<>>
    /\ UNCHANGED cfgVars

BothVertices ==
    /\ ~panicked
    /\ \E o1 \in Iter(tree.vertices), o2 \in Iter(tree2.vertices) :
          /\ obs' = vertices_iter(tree, o1)
          /\ obs2' = vertices_iter(tree2, o2)
    /\ last' = Call("vertices", 0, 0, FALSE)
    /\ UNCHANGED <<tree, tree2, panicked>>
    /\ UNCHANGED cfgVars

BothLeaves ==
    /\ ~panicked
    /\ \E o1 \in Iter(tree.vertices), o2 \in Iter(tree2.vertices) :
          /\ obs' = leaves(tree, o1)
          /\ obs2' = leaves(tree2, o2)
    /\ last' = Call("leaves", 0, 0, FALSE)
    /\ UNCHANGED <<tree, tree2, panicked>>
    /\ UNCHANGED cfgVars

BothIncoming(v) ==
    /\ ~panicked
    /\ \E o1 \in incoming(tree, v), o2 \in incoming(tree2, v) :
          /\ obs' = o1
          /\ obs2' = o2
    /\ last' = Call("incoming", v, v, FALSE)
    /\ UNCHANGED <<tree, tree2, panicked>>
    /\ UNCHANGED cfgVars

BothOutgoing(v) ==
    /\ ~panicked
    /\ \E o1 \in outgoing(tree, v), o2 \in outgoing(tree2, v) :
          /\ obs' = o1
          /\ obs2' = o2
    /\ last' = Call("outgoing", v, v, FALSE)
    /\ UNCHANGED <<tree, tree2, panicked>>
    /\ UNCHANGED cfgVars

BothConnectedEdges(v) ==
    /\ ~panicked
    /\ \E o1 \in connected_edges(tree, v), o2 \in connected_edges(tree2, v) :
          /\ obs' = o1
          /\ obs2' = o2
    /\ last' = Call("connected_edges", v, v, FALSE)
    /\ UNCHANGED <<tree, tree2, panicked>>
    /\ UNCHANGED cfgVars

NextDet ==
    \/ \E n \in NodeIds : BothAddVertex(n)
    \/ \E t, h \in NodeIds : BothAddEdge(t, h)
    \/ BothVertices
    \/ BothLeaves
    \/ \E v \in NodeIds : BothIncoming(v)
    \/ \E v \in NodeIds : BothOutgoing(v)
    \/ \E v \in NodeIds : BothConnectedEdges(v)

vars == <<treeVars, cfgVars>>

Spec == InitTree /\ [][NextTree]_vars

SpecGrow == InitGrow /\ [][NextGrow]_vars

SpecDet == InitTree /\ [][NextDet]_vars

SpecCfg == InitCfg /\ [][NextCfg]_vars

\* ------------------------------------------------------------------------
\* Properties of the Tree
\* ------------------------------------------------------------------------
Range(s) == {s[i] : i \in 1..Len(s)}

NoDuplicates(s) == \A i, j \in 1..Len(s) : s[i] = s[j] => i = j

Ids(t) == {v.id : v \in t.vertices}

OutgoingOf(t, id) == UNION {v.outgoing : v \in {w \in t.vertices : w.id = id}}

IncomingOf(t, id) == UNION {v.incoming : v \in {w \in t.vertices : w.id = id}}

\* C1: the edge set and the per-vertex neighbour sets are in sync: (t,h) is an
\* edge iff h is in the outgoing set of t iff t is in the incoming set of h,
\* and both endpoints of every edge are vertices of the tree.
C1_InSync ==
    \A t, h \in NodeIds :
        /\ contains_edge(tree, t, h) <=> h \in OutgoingOf(tree, t)
        /\ contains_edge(tree, t, h) <=> t \in IncomingOf(tree, h)
        /\ contains_edge(tree, t, h) => (t \in Ids(tree) /\ h \in Ids(tree))

\* an edge between two vertices, a self-loop, and a vertex re-added afterwards
C1_Witness ==
    /\ \E t, h \in NodeIds : t # h /\ contains_edge(tree, t, h) /\ contains_edge(tree, h, h)
    /\ last.op = "add_vertex"

\* C5: add_edge panics exactly when the tail or the head is not a vertex of
\* the tree, and then leaves the tree as it was.
C5_AddEdgePanic ==
    [][last'.op = "add_edge" =>
          LET missing == ~contains_vertex(tree, last'.a) \/ ~contains_vertex(tree, last'.b)
          IN  /\ panicked' <=> missing
              /\ missing => tree' = tree]_vars

\* add_edge has panicked on a tree that holds vertices and edges, for a
\* present tail and a missing head
C5_Witness ==
    /\ panicked
    /\ last.op = "add_edge"
    /\ tree.edges # {}
    /\ contains_vertex(tree, last.a)
    /\ ~contains_vertex(tree, last.b)

\* C6: the tree holds at most one vertex per id, and add_vertex of an id that
\* is already stored changes neither the vertices (count, neighbour sets) nor
\* the edge set.
C6_AddVertexIdempotent ==
    [][/\ \A v, w \in tree'.vertices : v.id = w.id => v = w
       /\ (last'.op = "add_vertex" /\ contains_vertex(tree, last'.a)) => tree' = tree]_vars

\* add_vertex was called for a stored vertex that has neighbours
C6_Witness ==
    /\ last.op = "add_vertex"
    /\ contains_vertex(tree, last.a)
    /\ OutgoingOf(tree, last.a) # {}
    /\ IncomingOf(tree, last.a) # {}

LeafIds(t) ==
    {v.id : v \in {w \in t.vertices : Cardinality(w.incoming) + Cardinality(w.outgoing) < 2}}

\* C7: leaves() yields, each once, exactly the vertices with fewer than two
\* incident tree edges, and is_leave(v) is true for exactly those vertices.
C7_Leaves ==
    /\ last.op = "leaves" => (NoDuplicates(obs) /\ Range(obs) = LeafIds(tree))
    /\ (last.op = "is_leave" /\ ~panicked) => (last.ret <=> last.a \in LeafIds(tree))

\* leaves() ran on a tree with leaves and with inner vertices
C7_Witness ==
    /\ last.op = "leaves"
    /\ Len(obs) >= 2
    /\ Len(obs) < Cardinality(tree.vertices)

\* C8: is_incident_edge(tail, head) is true iff exactly one of tail and head
\* is a vertex of the tree (so never for tail = head), and it leaves the tree
\* as it was.
C8_IsIncidentEdge ==
    [][last'.op = "is_incident_edge" =>
          /\ last'.ret <=> ((last'.a \in Ids(tree)) # (last'.b \in Ids(tree)))
          /\ last'.a = last'.b => ~last'.ret
          /\ tree' = tree]_vars

\* is_incident_edge answered true for a pair whose head is the member
C8_Witness ==
    /\ last.op = "is_incident_edge"
    /\ last.ret
    /\ last.b \in Ids(tree)
    /\ Cardinality(tree.vertices) >= 2

RECURSIVE Reach(_, _)
Reach(E, S) ==
    LET N == S \cup {e[2] : e \in {f \in E : f[1] \in S}}
               \cup {e[1] : e \in {f \in E : f[2] \in S}}
    IN  IF N = S THEN S ELSE Reach(E, N)

\* the edges, read undirected, connect all the vertices
Connected(t) == \A r \in Ids(t) : Reach(t.edges, {r}) = Ids(t)

\* number of edge ends at id among the edges inside S (a self-loop has two)
DegreeIn(E, S, id) ==
    Cardinality({e \in E : e[1] = id /\ e[2] \in S})
    + Cardinality({e \in E : e[2] = id /\ e[1] \in S})

\* the edges, read undirected, hold no cycle: every set of vertices has one
\* with at most one edge end inside the set
Acyclic(t) ==
    \A S \in SUBSET Ids(t) : S # {} => \E v \in S : DegreeIn(t.edges, S, v) <= 1

\* C9: a tree grown from one vertex along incident edges stays connected and
\* acyclic with edge_count = vertice_count - 1, and add_edge never panics.
C9_GrowKeepsTree ==
    /\ ~panicked
    /\ Connected(tree)
    /\ Acyclic(tree)
    /\ edge_count(tree) = vertice_count(tree) - 1
    /\ \A e \in tree.edges : e[1] \in Ids(tree) /\ e[2] \in Ids(tree)

\* the tree has grown to span every vertex
C9_Witness ==
    /\ last.op = "grow"
    /\ Ids(tree) = GrowIds
    /\ edge_count(tree) = MaxGrowNode

\* ------------------------------------------------------------------------
\* Properties of the configuration builder
\* ------------------------------------------------------------------------
\* the variables whose unrecognized values C2 speaks of
ClaimedEnv ==
    {ENV_MINIMUM_LENGTH, ENV_VERTEX_SPACING, ENV_DUMMY_VERTICES, ENV_TRANSPOSE,
     ENV_LAYERING_TYPE, ENV_CROSSING_MINIMIZATION}

FieldOf(name) ==
    CASE name = ENV_MINIMUM_LENGTH -> "minimum_length"
      [] name = ENV_VERTEX_SPACING -> "vertex_spacing"
      [] name = ENV_DUMMY_VERTICES -> "dummy_vertices"
      [] name = ENV_TRANSPOSE -> "transpose"
      [] name = ENV_LAYERING_TYPE -> "layering_type"
      [] name = ENV_CROSSING_MINIMIZATION -> "c_minimization"
      [] name = ENV_DUMMY_SIZE -> "dummy_size"

Parsed(e, name) ==
    CASE name = ENV_MINIMUM_LENGTH -> parse_u32(env_str(e, name))
      [] name = ENV_VERTEX_SPACING -> parse_usize(env_str(e, name))
      [] name = ENV_DUMMY_VERTICES -> parse_bool(env_str(e, name))
      [] name = ENV_TRANSPOSE -> parse_bool(env_str(e, name))
      [] name = ENV_LAYERING_TYPE -> RankingType_try_from(env_str(e, name))
      [] name = ENV_CROSSING_MINIMIZATION -> CrossingMinimization_try_from(env_str(e, name))
      [] name = ENV_DUMMY_SIZE -> parse_f64(env_str(e, name))

Unrecognized(e, name) == e[name] # Unset /\ ~Parsed(e, name).ok

Recognized(e, name) == e[name] # Unset /\ Parsed(e, name).ok

C3_MinimumLengthInRange == pc = "built" => handed.minimum_length >= 1

\* C4 (as claimed): two trees built by the same calls yield their items in
\* the same order.
C4_SameOrder == obs = obs2

====
